---- MODULE Spec2Model ----
(***************************************************************************)
(* Natural-language trace-query subsystem of jaeger-ui: the AI assistant   *)
(* search component (AIAssistantSearch.tsx), the query parser and the LLM  *)
(* clients (query-parser.ts, which also holds llm-client.ts).              *)
(*                                                                         *)
(* A JavaScript string is modelled as a sequence of chunks; a chunk is an  *)
(* atomic run of characters (three backticks, "json", "{", a quote, a      *)
(* word, ...).  The                                                        *)
(* regular expressions and JSON.parse of the source work on characters;    *)
(* here they work on chunks, and every text the model builds is made of    *)
(* chunks on whose borders the source's patterns can only begin or end.    *)
(***************************************************************************)
EXTENDS Integers, Sequences, FiniteSets, TLC

VARIABLES
    question,       \* useState('')            AIAssistantSearch.tsx:33
    selectedModel,  \* useState('ollama-free') AIAssistantSearch.tsx:34
    loading,        \* useState(false)         AIAssistantSearch.tsx:35
    showSettings,   \* useState(false)         AIAssistantSearch.tsx:36
    apiKey,         \* useState(localStorage 'jaeger-ai-openai-key' || '') :37
    ollamaUrl,      \* useState(localStorage 'jaeger-ai-ollama-url' || default) :38-40
    parsedQuery,    \* useState(null)          AIAssistantSearch.tsx:41
    queryHistory,   \* useState(localStorage 'jaeger-ai-history')     :42-45
    storage,        \* localStorage item 'jaeger-ai-history'
    submitting,     \* prop: the Redux search state is LOADING       :303-307
    searches,       \* the queries handed to searchTraces, in order
    clock,          \* Date.now()
    req,            \* the calls of handleSearch / queryLLM in flight, oldest first
    last,           \* the call that ended last
    nreq,           \* how many calls have been made
    caller,         \* who calls the module: the component, or other code
                    \* through the exports of index.ts (src/unnamed/part_002)
    xRaw,           \* pure-function harness: the model's reply
    xQuestion,      \* pure-function harness: the question
    xOut,           \* pure-function harness: what extraction gave
    xFilters        \* pure-function harness: what each call of
                    \* convertParsedQueryToSearchFilters returned, in order

vars == <<question, selectedModel, loading, showSettings, apiKey, ollamaUrl, parsedQuery,
          queryHistory, storage, submitting, searches, clock, req, last, nreq,
          caller, xRaw, xQuestion, xOut, xFilters>>

uiVars == <<question, selectedModel, loading, showSettings, apiKey, ollamaUrl, parsedQuery,
            queryHistory, storage, submitting, searches, clock, req, last, nreq,
            caller>>

\* what no action of the component or of a caller changes
xVars == <<caller, xRaw, xQuestion, xOut, xFilters>>

-----------------------------------------------------------------------------
(* Strings                                                                 *)

Min(a, b) == IF a <= b THEN a ELSE b

Q == "\""
NL == "\n"
SP == " "
\* three backticks (a string of the module cannot hold the character itself)
FENCE == "<3 backticks>"

\* A white-space chunk, as String.prototype.trim and JSON.parse see it.
IsWs(c) == c \in {SP, NL}

RECURSIVE TrimStart(_)
TrimStart(s) ==
    IF s = <<>> THEN s
    ELSE IF IsWs(Head(s)) THEN TrimStart(Tail(s)) ELSE s

RECURSIVE TrimEnd(_)
TrimEnd(s) ==
    IF s = <<>> THEN s
    ELSE IF IsWs(s[Len(s)]) THEN TrimEnd(SubSeq(s, 1, Len(s) - 1)) ELSE s

\* question.trim()
Trim(s) == TrimEnd(TrimStart(s))

\* Array.prototype.join on an array of strings.
RECURSIVE Join(_, _)
Join(parts, sep) ==
    IF parts = <<>> THEN <<>>
    ELSE IF Len(parts) = 1 THEN parts[1]
    ELSE parts[1] \o sep \o Join(Tail(parts), sep)

\* The first position of s at or after i that holds chunk c, or 0.
FirstAt(s, i, c) ==
    IF \E j \in i..Len(s) : s[j] = c
    THEN CHOOSE j \in i..Len(s) : s[j] = c /\ \A k \in i..(j - 1) : s[k] # c
    ELSE 0

-----------------------------------------------------------------------------
(* JavaScript values                                                       *)

Undef == [kind |-> "undefined", str |-> <<>>, items |-> <<>>]
NullV == [kind |-> "null", str |-> <<>>, items |-> <<>>]
StrV(s) == [kind |-> "string", str |-> s, items |-> <<>>]
NumV(c) == [kind |-> "number", str |-> <<c>>, items |-> <<>>]
BoolV(c) == [kind |-> "boolean", str |-> <<c>>, items |-> <<>>]
\* items: the elements
ArrV(elems) == [kind |-> "array", str |-> <<>>, items |-> elems]
\* items: the members [key, val], in insertion order, keys unique
ObjV(members) == [kind |-> "object", str |-> <<>>, items |-> members]

NumberChunks == {"0", "42", "500"}

\* typeof v
TypeOf(v) ==
    CASE v.kind = "string" -> "string"
      [] v.kind = "number" -> "number"
      [] v.kind = "boolean" -> "boolean"
      [] v.kind = "undefined" -> "undefined"
      [] OTHER -> "object"

\* ToBoolean(v): what `v && ...`, `v || ...`, `if (v)` and `!v` test.
Truthy(v) ==
    CASE v.kind \in {"undefined", "null"} -> FALSE
      [] v.kind = "string" -> v.str # <<>>
      [] v.kind = "number" -> v.str # <<"0">>
      [] v.kind = "boolean" -> v.str = <<"true">>
      [] OTHER -> TRUE

\* Object.keys(v).length for an object or an array
KeyCount(v) == IF v.kind \in {"object", "array"} THEN Len(v.items) ELSE 0

\* A member's key is a string (a sequence of chunks); the property names
\* the source reads are single chunks.
HasKey(v, k) ==
    v.kind = "object" /\ \E i \in 1..Len(v.items) : v.items[i].key = <<k>>

\* v.k, for v not null or undefined: an own member's value, else undefined.
Get(v, k) ==
    IF HasKey(v, k)
    THEN v.items[CHOOSE i \in 1..Len(v.items) : v.items[i].key = <<k>>].val
    ELSE Undef

\* Setting a member while parsing: a repeated key keeps its place and takes
\* the later value.
PutMember(members, k, v) ==
    IF \E i \in 1..Len(members) : members[i].key = k
    THEN [i \in 1..Len(members) |->
            IF members[i].key = k THEN [key |-> k, val |-> v] ELSE members[i]]
    ELSE Append(members, [key |-> k, val |-> v])

\* `${v}`: String(v) inside a template literal.
ToStr(v) ==
    CASE v.kind \in {"string", "number", "boolean"} -> v.str
      [] v.kind = "null" -> <<"null">>
      [] v.kind = "undefined" -> <<"undefined">>
      [] v.kind = "object" -> <<"[object Object]">>
      [] OTHER -> <<"[array]">>

-----------------------------------------------------------------------------
(* JSON.parse                                                              *)

ParseFail == [ok |-> FALSE, val |-> Undef, pos |-> 0]
ParseOk(v, p) == [ok |-> TRUE, val |-> v, pos |-> p]

RECURSIVE SkipWs(_, _)
SkipWs(s, i) ==
    IF i <= Len(s) /\ IsWs(s[i]) THEN SkipWs(s, i + 1) ELSE i

At(s, i) == IF i >= 1 /\ i <= Len(s) THEN s[i] ELSE "<eof>"

\* A string literal opening at i: up to the next quote; a raw line break
\* inside it is a syntax error.
ParseString(s, i) ==
    LET j == FirstAt(s, i + 1, Q) IN
    IF At(s, i) # Q \/ j = 0 THEN ParseFail
    ELSE IF \E k \in (i + 1)..(j - 1) : s[k] = NL THEN ParseFail
    ELSE ParseOk(StrV(SubSeq(s, i + 1, j - 1)), j + 1)

RECURSIVE ParseValue(_, _)
RECURSIVE ParseElements(_, _, _)
RECURSIVE ParseMembers(_, _, _)

ParseValue(s, i) ==
    LET j == SkipWs(s, i)
        c == At(s, j)
    IN  CASE c = Q -> ParseString(s, j)
          [] c \in NumberChunks -> ParseOk(NumV(c), j + 1)
          [] c = "null" -> ParseOk(NullV, j + 1)
          [] c \in {"true", "false"} -> ParseOk(BoolV(c), j + 1)
          [] c = "[" ->
                IF At(s, SkipWs(s, j + 1)) = "]"
                THEN ParseOk(ArrV(<<>>), SkipWs(s, j + 1) + 1)
                ELSE ParseElements(s, j + 1, <<>>)
          [] c = "{" ->
                IF At(s, SkipWs(s, j + 1)) = "}"
                THEN ParseOk(ObjV(<<>>), SkipWs(s, j + 1) + 1)
                ELSE ParseMembers(s, j + 1, <<>>)
          [] OTHER -> ParseFail

ParseElements(s, i, acc) ==
    LET v == ParseValue(s, i) IN
    IF ~v.ok THEN ParseFail
    ELSE LET j == SkipWs(s, v.pos)
             c == At(s, j)
         IN  CASE c = "," -> ParseElements(s, j + 1, Append(acc, v.val))
               [] c = "]" -> ParseOk(ArrV(Append(acc, v.val)), j + 1)
               [] OTHER -> ParseFail

ParseMembers(s, i, acc) ==
    LET k == ParseString(s, SkipWs(s, i)) IN
    IF ~k.ok THEN ParseFail
    ELSE LET j == SkipWs(s, k.pos) IN
         IF At(s, j) # ":" THEN ParseFail
         ELSE LET v == ParseValue(s, j + 1) IN
              IF ~v.ok THEN ParseFail
              ELSE LET j2 == SkipWs(s, v.pos)
                       c == At(s, j2)
                       next == PutMember(acc, k.val.str, v.val)
                   IN  CASE c = "," -> ParseMembers(s, j2 + 1, next)
                         [] c = "}" -> ParseOk(ObjV(next), j2 + 1)
                         [] OTHER -> ParseFail

\* JSON.parse(s): the value, or a SyntaxError.
JSONParse(s) ==
    LET r == ParseValue(s, 1) IN
    IF r.ok /\ SkipWs(s, r.pos) = Len(s) + 1
    THEN [ok |-> TRUE, val |-> r.val]
    ELSE [ok |-> FALSE, val |-> Undef]

-----------------------------------------------------------------------------
(* parseNaturalLanguageQuery: locating the JSON in the reply               *)

NoMatch == [found |-> FALSE, from |-> 0, to |-> 0]
Match(a, b) == [found |-> TRUE, from |-> a, to |-> b]

\* The least element of a non-empty set of numbers.
Least(S) == CHOOSE x \in S : \A y \in S : x <= y
Greatest(S) == CHOOSE x \in S : \A y \in S : x >= y

\* "```json" begins at i.
FenceOpens(s, i) == At(s, i) = FENCE /\ At(s, i + 1) = "json"

\* "\n?```" matches at j.
FenceCloses(s, j) ==
    At(s, j) = FENCE \/ (At(s, j) = NL /\ At(s, j + 1) = FENCE)

\* ([\s\S]*?) from c: the capture ends before the first j >= c where the
\* rest of the pattern matches.
LazyEnd(s, c) ==
    LET ends == {j \in c..Len(s) : FenceCloses(s, j)} IN
    IF ends = {} THEN 0 ELSE Least(ends)

\* /```json\n?([\s\S]*?)\n?```/ tried at position i: group 1.  The first
\* \n? takes a line break when there is one and gives it back only if the
\* rest cannot match.
FenceAttempt(s, i) ==
    IF ~FenceOpens(s, i) THEN NoMatch
    ELSE LET p == i + 2
             c1 == IF At(s, p) = NL THEN p + 1 ELSE p
         IN  IF LazyEnd(s, c1) # 0 THEN Match(c1, LazyEnd(s, c1) - 1)
             ELSE IF LazyEnd(s, p) # 0 THEN Match(p, LazyEnd(s, p) - 1)
             ELSE NoMatch

\* jsonContent.match(/```json\n?([\s\S]*?)\n?```/): the leftmost match.
FenceMatch(s) ==
    LET starts == {i \in 1..Len(s) : FenceAttempt(s, i).found} IN
    IF starts = {} THEN NoMatch ELSE FenceAttempt(s, Least(starts))

\* /\{[\s\S]*\}/ tried at position i: [\s\S]* takes everything and gives
\* back until a "}" follows.
PlainAttempt(s, i) ==
    LET closes == {j \in (i + 1)..Len(s) : s[j] = "}"} IN
    IF At(s, i) # "{" \/ closes = {} THEN NoMatch
    ELSE Match(i, Greatest(closes))

\* jsonContent.match(/\{[\s\S]*\}/): the leftmost match.
PlainMatch(s) ==
    LET starts == {i \in 1..Len(s) : PlainAttempt(s, i).found} IN
    IF starts = {} THEN NoMatch ELSE PlainAttempt(s, Least(starts))

\* A variant that looks for the plain object before the fenced block.
JsonContentPlainFirst(content) ==
    LET jsonMatch == FenceMatch(content)
        plainMatch == PlainMatch(content)
    IN  IF plainMatch.found THEN SubSeq(content, plainMatch.from, plainMatch.to)
        ELSE IF jsonMatch.found
             THEN SubSeq(content, jsonMatch.from, jsonMatch.to)
        ELSE content

\* jsonContent as JSON.parse receives it (query-parser.ts:58-68).
JsonContent(content) ==
    LET jsonMatch == FenceMatch(content)
        plainMatch == PlainMatch(content)
    IN  IF jsonMatch.found THEN SubSeq(content, jsonMatch.from, jsonMatch.to)
        ELSE IF plainMatch.found
             THEN SubSeq(content, plainMatch.from, plainMatch.to)
        ELSE content

-----------------------------------------------------------------------------
(* parseNaturalLanguageQuery: normalising the parsed reply                 *)

StringFields == <<"service", "operation", "minDuration", "maxDuration">>

\* A variant that hands the member on as it is.
NormStringLoose(parsed, f) == Get(parsed, f)

\* typeof parsed.f === 'string' ? parsed.f : undefined, and then
\* f && f !== '' ? f : undefined.
NormString(parsed, f) ==
    LET v == IF TypeOf(Get(parsed, f)) = "string" THEN Get(parsed, f) ELSE Undef
    IN  IF Truthy(v) /\ v # StrV(<<>>) THEN v ELSE Undef

\* parsed.tags && typeof parsed.tags === 'object' &&
\* Object.keys(parsed.tags).length > 0 ? parsed.tags : undefined
NormTags(parsed) ==
    LET t == Get(parsed, "tags") IN
    IF Truthy(t) /\ TypeOf(t) = "object" /\ KeyCount(t) > 0 THEN t ELSE Undef

\* parsed.status || 'all'
NormStatus(parsed) ==
    IF Truthy(Get(parsed, "status")) THEN Get(parsed, "status")
    ELSE StrV(<<"all">>)

\* A variant that prefers the reply's own natural_language_question.
NormalizeReplyQuestion(parsed, q) ==
    [natural_language_question |->
        IF TypeOf(Get(parsed, "natural_language_question")) = "string"
        THEN Get(parsed, "natural_language_question").str ELSE q,
     service |-> NormString(parsed, "service"),
     operation |-> NormString(parsed, "operation"),
     minDuration |-> NormString(parsed, "minDuration"),
     maxDuration |-> NormString(parsed, "maxDuration"),
     tags |-> NormTags(parsed),
     status |-> NormStatus(parsed)]

\* The IParsedQuery built at query-parser.ts:83-91.
Normalize(parsed, q) ==
    [natural_language_question |-> q,
     service |-> NormString(parsed, "service"),
     operation |-> NormString(parsed, "operation"),
     minDuration |-> NormString(parsed, "minDuration"),
     maxDuration |-> NormString(parsed, "maxDuration"),
     tags |-> NormTags(parsed),
     status |-> NormStatus(parsed)]

NoQuery == [natural_language_question |-> <<>>, service |-> Undef,
            operation |-> Undef, minDuration |-> Undef, maxDuration |-> Undef,
            tags |-> Undef, status |-> Undef]

MsgParse == "Failed to parse LLM response as JSON"

\* The try block of parseNaturalLanguageQuery (query-parser.ts:70-98) once
\* JSON.parse has returned p or thrown: the IParsedQuery, or the Error its
\* catch throws.  The catch sees JSON.parse's SyntaxError and the TypeError
\* of reading parsed.service when JSON.parse returned null.
ExtractParsed(p, q) ==
    IF ~p.ok \/ p.val.kind = "null"
    THEN [ok |-> FALSE, error |-> MsgParse, parsed |-> NoQuery]
    ELSE [ok |-> TRUE, error |-> "", parsed |-> Normalize(p.val, q)]

-----------------------------------------------------------------------------
(* convertParsedQueryToSearchFilters                                       *)

\* The decimal text of an array index.
IndexChunk(i) == CASE i = 1 -> "0" [] i = 2 -> "1" [] OTHER -> "2"

\* Object.entries(v)
Entries(v) ==
    IF v.kind = "object" THEN v.items
    ELSE IF v.kind = "array"
         THEN [i \in 1..Len(v.items) |->
                 [key |-> <<IndexChunk(i)>>, val |-> v.items[i]]]
    ELSE <<>>

\* `${key}="${value}"`
TagString(e) == e.key \o <<"=", Q>> \o ToStr(e.val) \o <<Q>>

\* A variant that joins the pairs with commas.
TagsTextCommas(tags) ==
    Join([i \in 1..Len(Entries(tags)) |-> TagString(Entries(tags)[i])], <<",">>)

\* tagStrings.join(' ')
TagsText(tags) ==
    Join([i \in 1..Len(Entries(tags)) |-> TagString(Entries(tags)[i])], <<SP>>)

MarkerError == <<"otel.status_code", "=", Q, "ERROR", Q>>
MarkerOk == <<"otel.status_code", "=", Q, "OK", Q>>

\* A variant that puts the marker before the tags.
FilterTagsMarkerFirst(parsed) ==
    LET rendered == IF Truthy(parsed.tags) /\ KeyCount(parsed.tags) > 0
                    THEN TagsText(parsed.tags) ELSE <<>>
    IN  IF parsed.status = StrV(<<"error">>)
        THEN IF rendered # <<>> THEN MarkerError \o <<SP>> \o rendered
             ELSE MarkerError
        ELSE IF parsed.status = StrV(<<"success">>)
        THEN IF rendered # <<>> THEN MarkerOk \o <<SP>> \o rendered
             ELSE MarkerOk
        ELSE rendered

\* filters.tags after query-parser.ts:121-137; <<>> stands for "not set"
\* (a set value is never the empty string).
FilterTags(parsed) ==
    LET rendered == IF Truthy(parsed.tags) /\ KeyCount(parsed.tags) > 0
                    THEN TagsText(parsed.tags) ELSE <<>>
        existingTags == rendered
    IN  IF parsed.status = StrV(<<"error">>)
        THEN IF existingTags # <<>> THEN existingTags \o <<SP>> \o MarkerError
             ELSE MarkerError
        ELSE IF parsed.status = StrV(<<"success">>)
        THEN IF existingTags # <<>> THEN existingTags \o <<SP>> \o MarkerOk
             ELSE MarkerOk
        ELSE rendered

\* A variant whose result depends on the calls made before.
CompileStateful(parsed) ==
    LET set == {f \in {"service", "operation", "minDuration", "maxDuration"} :
                    Truthy(parsed[f]) /\ xFilters = <<>>}
               \cup (IF FilterTags(parsed) # <<>> THEN {"tags"} ELSE {})
    IN  [f \in set |-> IF f = "tags" THEN StrV(FilterTags(parsed)) ELSE parsed[f]]

\* A variant that forgets minDuration.
CompileWithoutMin(parsed) ==
    LET set == {f \in {"service", "operation", "maxDuration"} :
                    Truthy(parsed[f])}
               \cup (IF FilterTags(parsed) # <<>> THEN {"tags"} ELSE {})
    IN  [f \in set |-> IF f = "tags" THEN StrV(FilterTags(parsed)) ELSE parsed[f]]

\* A variant that writes "-" for an absent service or operation, as the
\* search query does.
CompileDashes(parsed) ==
    LET set == {"service", "operation"}
               \cup {f \in {"minDuration", "maxDuration"} : Truthy(parsed[f])}
               \cup (IF FilterTags(parsed) # <<>> THEN {"tags"} ELSE {})
    IN  [f \in set |->
            IF f = "tags" THEN StrV(FilterTags(parsed))
            ELSE IF Truthy(parsed[f]) THEN parsed[f] ELSE StrV(<<"-">>)]

\* convertParsedQueryToSearchFilters(parsed): the filters object, as a
\* function from the keys that were set to their values.
Compile(parsed) ==
    LET set == {f \in {"service", "operation", "minDuration", "maxDuration"} :
                    Truthy(parsed[f])}
               \cup (IF FilterTags(parsed) # <<>> THEN {"tags"} ELSE {})
    IN  [f \in set |-> IF f = "tags" THEN StrV(FilterTags(parsed)) ELSE parsed[f]]

\* searchQuery of handleSearch (AIAssistantSearch.tsx:91-108).  start and
\* end come from the wall clock through lookbackToTimestamp, which is not
\* part of this development, and are left out.
SearchQuery(filters) ==
    LET opt == {f \in {"minDuration", "maxDuration", "tags"} :
                    f \in DOMAIN filters /\ Truthy(filters[f])}
        F(f) == IF f \in DOMAIN filters /\ Truthy(filters[f]) THEN filters[f]
                ELSE StrV(<<"-">>)
    IN  [f \in {"service", "operation", "limit", "lookback"} \cup opt |->
            CASE f \in {"service", "operation"} -> F(f)
              [] f = "limit" -> StrV(<<"20">>)
              [] f = "lookback" -> StrV(<<"1h">>)
              [] OTHER -> filters[f]]

-----------------------------------------------------------------------------
(* Texts: JSON written out, and the ways a model wraps it                  *)

Str(w) == <<Q>> \o w \o <<Q>>
Mem(k, v) == Str(<<k>>) \o <<":">> \o v
MemSp(k, v) == Str(<<k>>) \o <<":", SP>> \o v
Obj(ms) == <<"{">> \o Join(ms, <<",">>) \o <<"}">>
ObjSp(ms) == <<"{">> \o Join(ms, <<",", SP>>) \o <<"}">>

\* The first example reply of SYSTEM_PROMPT (query-parser.ts:40-41).
PSlow ==
    ObjSp(<<MemSp("service", Str(<<"user">>)), MemSp("operation", Str(<<>>)),
            MemSp("minDuration", Str(<<"500ms">>)), MemSp("maxDuration", Str(<<>>)),
            MemSp("tags", Obj(<<>>)), MemSp("status", Str(<<"all">>)),
            MemSp("reasoning", Str(<<"Selected", SP, "user">>))>>)

\* The second example reply of SYSTEM_PROMPT (query-parser.ts:43-44).
PErr ==
    ObjSp(<<MemSp("service", Str(<<"payment">>)), MemSp("operation", Str(<<>>)),
            MemSp("minDuration", Str(<<>>)), MemSp("maxDuration", Str(<<>>)),
            MemSp("tags", Obj(<<Mem("http.status_code", Str(<<"5xx">>))>>)),
            MemSp("status", Str(<<"error">>)),
            MemSp("reasoning", Str(<<"Selected", SP, "payment">>))>>)

PUser == Obj(<<Mem("service", Str(<<"user">>))>>)
POk == Obj(<<Mem("service", Str(<<"cart">>)), Mem("status", Str(<<"success">>))>>)
PEmpty == Obj(<<>>)
\* a string value that holds three backticks
PTicks == Obj(<<Mem("service", Str(<<"user">>)),
                Mem("reasoning", Str(<<"wrap", SP, FENCE, SP, "it">>))>>)
\* a string value that holds braces
PBraces == Obj(<<Mem("service", Str(<<"user">>)),
                 Mem("reasoning", Str(<<"{", "x", "}">>))>>)

ObjectPayloads == {PSlow, PErr, PUser, POk, PEmpty, PTicks, PBraces}

\* JSON that is no object
NonObjects == {<<"42">>, Str(<<"hi">>), <<"[", "42", "]">>, <<"[", "]">>,
               <<"null">>, <<"true">>}

\* no JSON at all
Malformed == {<<"Sorry", SP, "no", SP, "idea">>, <<>>,
              <<"{", Q, "service", Q, ":">>, <<"}", SP, "{">>,
              <<"{", "service", "}">>}

WBare(p) == p
WProse(p) == <<"Here", SP, "it", SP, "is", ":", SP>> \o p \o <<SP, "done">>
WFence(p) == <<FENCE, "json", NL>> \o p \o <<NL, FENCE>>
WFenceProse(p) ==
    <<"Sure", NL, FENCE, "json", NL>> \o p \o <<NL, FENCE, NL, "ok">>
WFenceTight(p) == <<FENCE, "json">> \o p \o <<FENCE>>
\* a fence without the json label
WPlainFence(p) == <<FENCE, NL>> \o p \o <<NL, FENCE>>
\* an opening fence that is never closed
WUnclosed(p) == <<FENCE, "json", NL>> \o p

Wrapped(p) == {WBare(p), WProse(p), WFence(p), WFenceProse(p), WFenceTight(p),
               WPlainFence(p), WUnclosed(p)}

\* two candidates in one reply
BareThenFence(a, b) == <<"First", SP>> \o b \o <<NL>> \o WFence(a)
FenceThenBare(a, b) == WFence(a) \o <<NL, "or", SP>> \o b
TwoFences(a, b) == WFence(a) \o <<NL>> \o WFence(b)
TwoBare(a, b) == a \o <<SP, "and", SP>> \o b

PairPayloads == {PUser, POk, <<"42">>}

Pairs(a, b) == {BareThenFence(a, b), FenceThenBare(a, b), TwoFences(a, b),
                TwoBare(a, b)}

\* The members of the structure SYSTEM_PROMPT asks for, and the field the
\* parser sets itself.
ReplyFields == {"service", "operation", "minDuration", "maxDuration", "tags",
                "status", "natural_language_question"}

TagsOne == Obj(<<Mem("a", Str(<<"b">>))>>)
TagsTwo == Obj(<<Mem("c", Str(<<"d">>)), Mem("a", Str(<<"b">>))>>)

\* JSON values a member may hold.
FieldValues ==
    {Str(<<"user">>), Str(<<>>), Str(<<SP>>), Str(<<"error">>),
     Str(<<"success">>), Str(<<"all">>), Str(<<"warning">>),
     <<"42">>, <<"0">>, <<"null">>, <<"true">>, <<"false">>,
     Obj(<<>>), TagsOne, TagsTwo, <<"[", "]">>, <<"[">> \o Str(<<"x">>) \o <<"]">>}

\* Replies of one member, and replies that hold tags and a status.
FieldReplies ==
    {Obj(<<Mem(f, v)>>) : f \in ReplyFields, v \in FieldValues}
    \cup {Obj(<<Mem("tags", t), Mem("status", Str(<<st>>))>>) :
              t \in {Obj(<<>>), TagsOne, TagsTwo},
              st \in {"error", "success", "all", "warning"}}

RawTexts ==
    UNION {Wrapped(p) : p \in ObjectPayloads \cup NonObjects \cup Malformed}
    \cup UNION {Pairs(a, b) : a \in PairPayloads, b \in {PUser, POk}}
    \cup FieldReplies

\* JSON.parse(jsonContent) of every reply above, worked out once.
ParsedReply == [t \in RawTexts |-> JSONParse(JsonContent(t))]

\* The try block of parseNaturalLanguageQuery on a reply's content.
Extract(content, q) ==
    ExtractParsed(IF content \in RawTexts THEN ParsedReply[content]
                  ELSE JSONParse(JsonContent(content)), q)

\* The questions of the two examples of SYSTEM_PROMPT.
QSlow == <<"Show", SP, "me", SP, "slow", SP, "requests", SP, "to", SP, "the",
           SP, "user", SP, "service">>
QErr == <<"Find", SP, "errors", SP, "in", SP, "payment", SP, "processing">>

XQuestions == {QSlow, QErr}

XNone == [done |-> FALSE, ok |-> FALSE, error |-> "", parsed |-> NoQuery]

-----------------------------------------------------------------------------
(* The LLM clients and queryLLM                                            *)

MaxRequests == 2

Models == {"openai-gpt4", "openai-gpt3.5", "ollama-free"}

\* config.model === 'openai-gpt4' || config.model === 'openai-gpt3.5'
Hosted(m) == m \in {"openai-gpt4", "openai-gpt3.5"}

Keys == {<<>>, <<"sk-1">>}

MsgEnterQuestion == "Please enter a question"
MsgConfigureKey == "Please configure OpenAI API key in settings"
MsgKeyRequired == "OpenAI API key is required"
MsgUnknownModel == "Unknown model"
MsgOpenAIError == "OpenAI API error"
MsgOllamaError == "Ollama API error"
MsgModelNotFound == "Ollama model not found. Install it with: ollama pull"
MsgUnableToConnect == "Unable to connect to Ollama"
MsgFetchFailed == "TypeError: Failed to fetch"
MsgReadUndefined == "TypeError: Cannot read properties of undefined"
MsgBodyNotJson == "SyntaxError: Unexpected token"

\* A variant of queryLLM that builds the OpenAI client without looking at
\* the key.
QueryLLMUnchecked(m, key) ==
    IF Hosted(m) THEN [throws |-> FALSE, msg |-> "", client |-> "openai"]
    ELSE IF m = "ollama-free"
         THEN [throws |-> FALSE, msg |-> "", client |-> "ollama"]
    ELSE [throws |-> TRUE, msg |-> MsgUnknownModel, client |-> "none"]

\* queryLLM up to its first await (query-parser.ts:261-276): the client it
\* builds and queries, or the Error it throws before any request is made.
\* key is config.apiKey.
QueryLLMStart(m, key) ==
    IF Hosted(m)
    THEN IF key = <<>> THEN [throws |-> TRUE, msg |-> MsgKeyRequired, client |-> "none"]
         ELSE [throws |-> FALSE, msg |-> "", client |-> "openai"]
    ELSE IF m = "ollama-free"
         THEN [throws |-> FALSE, msg |-> "", client |-> "ollama"]
    ELSE [throws |-> TRUE, msg |-> MsgUnknownModel, client |-> "none"]

\* What the network does with one fetch: the transport fails (fault), or a
\* response arrives with a status, a status text and a body.
\*   body "content"    the completion (choices[0].message.content / response)
\*   body "empty"      no completion (choices: [] / no response field)
\*   body "nocontent"  a first choice without content
\*   body "nolist"     a JSON body without a choices array
\*   body "message"    an error body with a message (error.message / error)
\*   body "nomessage"  a JSON error body without a message
\*   body "notjson"    a body that is not JSON, read by an engine whose
\*                     SyntaxError does not quote it
\*   body "notjsonquoted"  the same, read by an engine whose SyntaxError
\*                     quotes a short body whole ("Unexpected token 'm',
\*                     "..." is not valid JSON")
\* text is the completion, the message, or the text of the body.
Fault == [kind |-> "fault", ok |-> FALSE, body |-> "none", text |-> <<>>]
Http(ok, body, text) == [kind |-> "http", ok |-> ok, body |-> body, text |-> text]

\* response.statusText
StatusText(resp) ==
    IF resp.ok THEN <<"OK">> ELSE <<"Service", SP, "Unavailable">>

\* String.prototype.includes, on chunks
Includes(t, w) == \E i \in 1..Len(t) : t[i] = w

\* err.message.includes('model') && err.message.includes('not found')
\* (query-parser.ts:246)
ModelAbsent(t) == Includes(t, "model") /\ Includes(t, "not found")

\* The model OllamaClient asks for: queryLLM passes none, so the default.
OllamaModel == <<"llama2">>

Returned(text) == [ok |-> TRUE, content |-> text, msg |-> "", detail |-> <<>>]
Thrown(msg) == [ok |-> FALSE, content |-> <<>>, msg |-> msg, detail |-> <<>>]
ThrownWith(msg, detail) == [ok |-> FALSE, content |-> <<>>, msg |-> msg, detail |-> detail]

\* OpenAIClient.query after fetch settles (query-parser.ts:169-196).  The
\* detail of a thrown message is what follows its fixed part.
OpenAIQuery(resp) ==
    IF resp.kind = "fault" THEN Thrown(MsgFetchFailed)
    ELSE IF ~resp.ok
         THEN IF resp.body = "notjson" THEN Thrown(MsgBodyNotJson)
              ELSE IF resp.body = "notjsonquoted"
              THEN ThrownWith(MsgBodyNotJson, resp.text)
              ELSE IF resp.body = "message" /\ resp.text # <<>>
              THEN ThrownWith(MsgOpenAIError, resp.text)
              ELSE ThrownWith(MsgOpenAIError, StatusText(resp))
    ELSE CASE resp.body = "notjson" -> Thrown(MsgBodyNotJson)
           [] resp.body = "notjsonquoted" -> ThrownWith(MsgBodyNotJson, resp.text)
           [] resp.body = "nolist" -> Thrown(MsgReadUndefined)
           [] resp.body = "content" -> Returned(resp.text)
           [] OTHER -> Returned(<<>>)

\* errorMsg of OllamaClient.query (query-parser.ts:230-239): errorData.error
\* when the body parses and the field is truthy, else response.statusText.
OllamaErrorMsg(resp) ==
    IF resp.body = "message" /\ resp.text # <<>> THEN resp.text
    ELSE StatusText(resp)

\* The catch block of OllamaClient.query (query-parser.ts:243-257) on an
\* Error with this message: every value thrown inside the try block is an
\* Error, so it is rethrown unless its message holds 'model' and
\* 'not found'.  The fixed part of no message holds either, so the test is
\* made on the detail.
OllamaCatch(msg, detail) ==
    IF ModelAbsent(detail) THEN ThrownWith(MsgModelNotFound, OllamaModel)
    ELSE ThrownWith(msg, detail)

\* OllamaClient.query after fetch settles (query-parser.ts:213-258).
OllamaQuery(resp) ==
    IF resp.kind = "fault" THEN OllamaCatch(MsgFetchFailed, <<>>)
    ELSE IF ~resp.ok
         THEN OllamaCatch(MsgOllamaError, OllamaErrorMsg(resp))
    ELSE CASE resp.body = "notjson" -> OllamaCatch(MsgBodyNotJson, <<>>)
           [] resp.body = "notjsonquoted" -> OllamaCatch(MsgBodyNotJson, resp.text)
           [] resp.body = "content" -> Returned(resp.text)
           [] OTHER -> Returned(<<>>)

\* client.query(prompt) of the client queryLLM built.
ClientQuery(client, resp) ==
    IF client = "openai" THEN OpenAIQuery(resp) ELSE OllamaQuery(resp)

-----------------------------------------------------------------------------
(* The requests                                                            *)

\* A call of handleSearch (origin "ask") or of queryLLM by another caller of
\* the module's public API (origin "gateway").
\*   pc       "awaiting": suspended at `await fetch`; "done": returned/threw
\*   q        the question of the closure       hist  its queryHistory
\*   model, key, baseURL  config.model, config.apiKey, config.baseURL
\*   client   the client whose fetch is awaited
\*   url, auth  the address fetched and the Authorization header sent
\*   netCalls the fetches issued               late  the deadline has passed
\*   ok, msg  the outcome: success, or the message it ended with
\*   resp, detail, result  kept of a call of queryLLM that ended: what its
\*            fetch settled with, the variable part of the message thrown,
\*            the ILLMResponse returned
NoResult == [content |-> <<>>, model |-> "none"]
NoResp == [kind |-> "none", ok |-> FALSE, body |-> "none", text |-> <<>>]

NewReq(origin, q, m, key, hist) ==
    [origin |-> origin, pc |-> "awaiting", q |-> q, model |-> m, key |-> key,
     baseURL |-> <<>>, hist |-> hist, client |-> "none", url |-> <<>>,
     auth |-> <<>>, netCalls |-> 0, late |-> FALSE, ok |-> FALSE, msg |-> "",
     resp |-> NoResp, detail |-> <<>>, result |-> NoResult]

\* A call that has ended; its closure is gone.
Failed(r, msg) ==
    [r EXCEPT !.pc = "done", !.ok = FALSE, !.msg = msg, !.hist = <<>>,
              !.baseURL = <<>>, !.url = <<>>]
Succeeded(r) ==
    [r EXCEPT !.pc = "done", !.ok = TRUE, !.msg = "", !.hist = <<>>,
              !.baseURL = <<>>, !.url = <<>>]

OpenAIBase == <<"https://api.openai.com/v1">>
OllamaDefault == <<"http://localhost:11434">>

\* The address a client fetches (query-parser.ts:162, 170, 201-208, 215).
Endpoint(client, baseURL) ==
    IF client = "openai" THEN OpenAIBase \o <<"/chat/completions">>
    ELSE (IF baseURL # <<>> THEN baseURL ELSE OllamaDefault) \o <<"/api/generate">>

\* The Authorization header of a client's request (query-parser.ts:172-175,
\* 217-219): <<>> when there is none.
Authorization(client, key) ==
    IF client = "openai" THEN <<"Bearer", SP>> \o key ELSE <<>>

\* A variant that fetches once more.
FetchingTwice(r, client) ==
    [r EXCEPT !.client = client, !.netCalls = @ + 2,
              !.url = Endpoint(client, r.baseURL),
              !.auth = Authorization(client, r.key)]

\* The one fetch of client.query (query-parser.ts:170, 215).
Fetching(r, client) ==
    [r EXCEPT !.client = client, !.netCalls = @ + 1,
              !.url = Endpoint(client, r.baseURL),
              !.auth = Authorization(client, r.key)]

NoReq == [NewReq("none", <<>>, "ollama-free", <<>>, <<>>) EXCEPT !.pc = "idle"]

Awaiting == 1..Len(req)

\* req without its r-th call
Without(r) == [i \in 1..(Len(req) - 1) |-> IF i < r THEN req[i] ELSE req[i + 1]]

Asks == {r \in Awaiting : req[r].origin = "ask"}

\* The component is what runs.
Mounted == caller = "component"

\* How many entries of the old history a new one keeps: slice(0, 9).
HistorySlice == 9

\* A variant that keeps the whole of the old history.
NewHistoryUncut(q, now, hist) == <<[question |-> q, timestamp |-> now]>> \o hist

\* [{ question, timestamp: Date.now() }, ...queryHistory.slice(0, 9)]
NewHistory(q, now, hist) ==
    <<[question |-> q, timestamp |-> now]>>
        \o SubSeq(hist, 1, Min(HistorySlice, Len(hist)))

\* A variant that saves and searches whatever came before.
SavesAlways(ok) == TRUE

\* Whether handleSearch reaches "Save to history" and searchTraces: only
\* when nothing before them threw (AIAssistantSearch.tsx:79-117).
SavesAndSearches(ok) == ok

-----------------------------------------------------------------------------
(* handleSearch                                                            *)

\* A variant that passes the stored key whatever the model.
ConfigKeyAlways(m, key) == key

\* The config handleSearch builds (AIAssistantSearch.tsx:73-77): the key is
\* passed for the openai models only,
ConfigKey(m, key) == IF Hosted(m) THEN key ELSE <<>>

\* and the Ollama URL for the ollama model only.
ConfigBaseURL(m, url) == IF m = "ollama-free" THEN url ELSE <<>>

\* A variant whose handler turns the flag off only at the end of a run
\* that succeeded.
LoadingAfterSuccessOnly(ok) == ~ok

\* loading after the finally block of handleSearch
\* (AIAssistantSearch.tsx:121-123), whether or not the try block threw.
LoadingAfter(ok) == FALSE

\* The credential check of handleSearch (AIAssistantSearch.tsx:65).
MissingKey(m, key) == Hosted(m) /\ key = <<>>

\* A variant that tests the question without trimming it.
EmptyUntrimmed(q) == q = <<>>

\* The empty-question check (AIAssistantSearch.tsx:55).
EmptyQuestion(q) == Trim(q) = <<>>

\* handleSearch from its call to its first await or early return, run with
\* the closure's question q.  It leaves question to its caller.
HandleSearch(q) ==
    LET r == nreq + 1
        new == [NewReq("ask", q, selectedModel, ConfigKey(selectedModel, apiKey),
                       queryHistory)
                EXCEPT !.baseURL = ConfigBaseURL(selectedModel, ollamaUrl)]
        start == QueryLLMStart(new.model, new.key)
    IN  /\ nreq < MaxRequests
        /\ nreq' = r
        /\ IF EmptyQuestion(q)
           THEN /\ last' = Failed(new, MsgEnterQuestion)
                /\ UNCHANGED <<req, loading, parsedQuery, showSettings>>
           ELSE IF MissingKey(selectedModel, apiKey)
           THEN /\ last' = Failed(new, MsgConfigureKey)
                /\ loading' = FALSE
                /\ parsedQuery' = NoQuery
                /\ showSettings' = TRUE
                /\ UNCHANGED req
           ELSE IF start.throws
           THEN /\ last' = Failed(new, start.msg)
                /\ loading' = LoadingAfter(FALSE)
                /\ parsedQuery' = NoQuery
                /\ UNCHANGED <<req, showSettings>>
           ELSE /\ req' = Append(req, Fetching(new, start.client))
                /\ loading' = TRUE
                /\ parsedQuery' = NoQuery
                /\ UNCHANGED <<last, showSettings>>
        /\ UNCHANGED <<selectedModel, apiKey, ollamaUrl, queryHistory, storage, submitting,
                       searches, clock>>

\* The Find Traces button (AIAssistantSearch.tsx:198-207): disabled while
\* the question is blank or a search is submitting; while loading is set the
\* button shows its spinner and takes no click.
ClickFindTraces ==
    /\ Mounted
    /\ ~EmptyQuestion(question)
    /\ ~submitting
    /\ ~loading
    /\ HandleSearch(question)
    /\ UNCHANGED question
    /\ UNCHANGED xVars

\* Ctrl/Cmd+Enter in the text area (AIAssistantSearch.tsx:171-182), which
\* is disabled while loading or submitting.
PressCtrlEnter ==
    /\ Mounted
    /\ ~(loading \/ submitting)
    /\ HandleSearch(question)
    /\ UNCHANGED question
    /\ UNCHANGED xVars

\* Run This Search on history entry i (AIAssistantSearch.tsx:144-153):
\* handleSelectFromHistory sets the question for the next render, and
\* handleSearch runs at once, with the question of the render it closes over.
ClickRunThisSearch(i) ==
    /\ Mounted
    /\ i \in 1..Len(queryHistory)
    /\ question' = queryHistory[i].question
    /\ HandleSearch(question)
    /\ UNCHANGED xVars

\* handleSearch of request r from the moment its fetch settles with resp
\* to its end (AIAssistantSearch.tsx:79-123).
AskResumes(r, resp) ==
    LET got == ClientQuery(req[r].client, resp)
        ext == IF got.ok THEN Extract(got.content, req[r].q)
               ELSE [ok |-> FALSE, error |-> got.msg, parsed |-> NoQuery]
        newHistory == NewHistory(req[r].q, clock, req[r].hist)
    IN  /\ r \in Awaiting
        /\ req[r].origin = "ask"
        /\ IF SavesAndSearches(ext.ok)
           THEN /\ queryHistory' = newHistory
                /\ storage' = newHistory
                /\ searches' = Append(searches, SearchQuery(Compile(ext.parsed)))
                /\ clock' = clock + 1
           ELSE UNCHANGED <<queryHistory, storage, searches, clock>>
        /\ parsedQuery' = IF ext.ok THEN ext.parsed ELSE parsedQuery
        /\ last' = IF ext.ok THEN Succeeded(req[r]) ELSE Failed(req[r], ext.error)
        /\ req' = Without(r)
        /\ loading' = LoadingAfter(ext.ok)
        /\ UNCHANGED <<question, selectedModel, showSettings, apiKey, ollamaUrl, submitting,
                       nreq>>
        /\ UNCHANGED xVars

-----------------------------------------------------------------------------
(* queryLLM called through the public API                                  *)

GatewayModels == Models \cup {"claude"}

\* config.baseURL of a caller: absent, or an address.
BaseURLs == {<<>>, <<"http://gpu-box:11434">>}

\* queryLLM(config, prompt) from its call to its first await or throw.
GatewayCall(m, key) ==
    \E u \in BaseURLs :
    LET new == [NewReq("gateway", <<>>, m, key, <<>>) EXCEPT !.baseURL = u]
        start == QueryLLMStart(m, key)
    IN  /\ caller = "api"
        /\ nreq < MaxRequests
        /\ nreq' = nreq + 1
        /\ IF start.throws
           THEN last' = Failed(new, start.msg) /\ UNCHANGED req
           ELSE req' = Append(req, Fetching(new, start.client)) /\ UNCHANGED last
        /\ UNCHANGED <<question, selectedModel, loading, showSettings, apiKey, ollamaUrl,
                       parsedQuery, queryHistory, storage, submitting, searches,
                       clock>>
        /\ UNCHANGED xVars

\* A variant that names the model of the client in its result.
QueryLLMResultOfClient(m, content) ==
    [content |-> content, model |-> IF Hosted(m) THEN "gpt-4" ELSE "llama2"]

\* return { content, model: config.model } (query-parser.ts:278-281)
QueryLLMResult(m, content) == [content |-> content, model |-> m]

\* queryLLM from the moment its fetch settles (query-parser.ts:270-281).
GatewayResumes(r, resp) ==
    LET got == ClientQuery(req[r].client, resp)
        end == IF got.ok THEN Succeeded(req[r]) ELSE Failed(req[r], got.msg)
    IN
    /\ r \in Awaiting
    /\ req[r].origin = "gateway"
    /\ last' = [end EXCEPT !.resp = resp, !.detail = got.detail,
                           !.baseURL = req[r].baseURL, !.url = req[r].url,
                           !.result = IF got.ok
                                      THEN QueryLLMResult(req[r].model, got.content)
                                      ELSE NoResult]
    /\ req' = Without(r)
    /\ UNCHANGED <<question, selectedModel, loading, showSettings, apiKey, ollamaUrl,
                   parsedQuery, queryHistory, storage, submitting, searches,
                   clock, nreq>>
    /\ UNCHANGED xVars

-----------------------------------------------------------------------------
(* The rest of the component, and its environment                          *)

UiQuestions == {<<>>, <<SP>>, <<"a">>}

\* The replies a model gives in the runs of the component.
SpecReplies == {WFenceProse(PErr), WBare(<<"42">>),
                WBare(<<"Sorry", SP, "no", SP, "idea">>)}

Responses ==
    {Fault, Http(FALSE, "message", <<>>)}
    \cup {Http(TRUE, "content", t) : t \in SpecReplies}

\* onChange of the text area, which is disabled while loading or submitting.
SetQuestion(q) ==
    /\ Mounted
    /\ ~(loading \/ submitting)
    /\ q # question
    /\ question' = q
    /\ UNCHANGED <<selectedModel, loading, showSettings, apiKey, ollamaUrl, parsedQuery,
                   queryHistory, storage, submitting, searches, clock, req, last, nreq>>
    /\ UNCHANGED xVars

\* onChange of the model select, disabled while loading or submitting.
SetSelectedModel(m) ==
    /\ Mounted
    /\ ~(loading \/ submitting)
    /\ m # selectedModel
    /\ selectedModel' = m
    /\ UNCHANGED <<question, loading, showSettings, apiKey, ollamaUrl, parsedQuery,
                   queryHistory, storage, submitting, searches, clock, req, last, nreq>>
    /\ UNCHANGED xVars

\* handleClear; its button is disabled while the question is blank.
HandleClear ==
    /\ Mounted
    /\ ~EmptyQuestion(question)
    /\ question' = <<>>
    /\ parsedQuery' = NoQuery
    /\ UNCHANGED <<selectedModel, loading, showSettings, apiKey, ollamaUrl, queryHistory,
                   storage, submitting, searches, clock, req, last, nreq>>
    /\ UNCHANGED xVars

\* The settings button.
OpenSettings ==
    /\ Mounted
    /\ ~showSettings
    /\ showSettings' = TRUE
    /\ UNCHANGED <<question, selectedModel, loading, apiKey, ollamaUrl, parsedQuery,
                   queryHistory, storage, submitting, searches, clock, req, last, nreq>>
    /\ UNCHANGED xVars

\* onChange of the key field of the settings modal.
SetApiKey(k) ==
    /\ Mounted
    /\ showSettings
    /\ k # apiKey
    /\ apiKey' = k
    /\ UNCHANGED <<question, selectedModel, loading, showSettings, ollamaUrl,
                   parsedQuery, queryHistory, storage, submitting, searches,
                   clock, req, last, nreq>>
    /\ UNCHANGED xVars

\* What the Ollama URL field may hold.
Urls == {OllamaDefault, <<"http://gpu-box:11434">>}

\* onChange of the Ollama URL field of the settings modal
\* (AIAssistantSearch.tsx:267-270).
SetOllamaUrl(u) ==
    /\ Mounted
    /\ showSettings
    /\ u # ollamaUrl
    /\ ollamaUrl' = u
    /\ UNCHANGED <<question, selectedModel, loading, showSettings, apiKey,
                   parsedQuery, queryHistory, storage, submitting, searches,
                   clock, req, last, nreq>>
    /\ UNCHANGED xVars

\* handleSaveSettings, and the modal's onCancel: both close the modal; the
\* items handleSaveSettings writes are read again only when the component
\* is next constructed.
CloseSettings ==
    /\ Mounted
    /\ showSettings
    /\ showSettings' = FALSE
    /\ UNCHANGED <<question, selectedModel, loading, apiKey, ollamaUrl, parsedQuery,
                   queryHistory, storage, submitting, searches, clock, req, last, nreq>>
    /\ UNCHANGED xVars

\* The Redux search state enters or leaves LOADING (mapStateToProps).
SearchStateChanges ==
    /\ Mounted
    /\ submitting' = ~submitting
    /\ UNCHANGED <<question, selectedModel, loading, showSettings, apiKey, ollamaUrl,
                   parsedQuery, queryHistory, storage, searches, clock, req, last, nreq>>
    /\ UNCHANGED xVars

\* Time passes: the deadline of a pending call goes by.  Neither client
\* sets a timer on its fetch, so nothing else happens.
DeadlinePasses(r) ==
    /\ r \in Awaiting
    /\ ~req[r].late
    /\ req' = [req EXCEPT ![r].late = TRUE]
    /\ UNCHANGED <<question, selectedModel, loading, showSettings, apiKey, ollamaUrl,
                   parsedQuery, queryHistory, storage, submitting, searches,
                   clock, last, nreq>>
    /\ UNCHANGED xVars

\* The saved history a component may start from: what an earlier run left
\* under 'jaeger-ai-history' (newest first, at most ten entries).
SavedHistory(n) ==
    [i \in 1..n |-> [question |-> IF i % 2 = 1 THEN <<"a">> ELSE <<"b">>,
                     timestamp |-> n - i + 1]]

SavedLengths == {0, HistorySlice}

\* The component is mounted and used, or other code calls queryLLM.  The
\* two share no state, so their steps are not interleaved.
Init ==
    /\ caller \in {"component", "api"}
    /\ question = <<>>
    /\ selectedModel = "ollama-free"
    /\ loading = FALSE
    /\ showSettings = FALSE
    /\ apiKey \in IF caller = "component" THEN Keys ELSE {<<>>}
    /\ ollamaUrl = OllamaDefault
    /\ parsedQuery = NoQuery
    /\ queryHistory \in IF caller = "component"
                         THEN {SavedHistory(n) : n \in SavedLengths} ELSE {<<>>}
    /\ storage = queryHistory
    /\ submitting = FALSE
    /\ searches = <<>>
    /\ clock = Len(queryHistory) + 1
    /\ req = <<>>
    /\ last = NoReq
    /\ nreq = 0
    /\ xRaw = <<>>
    /\ xQuestion = <<>>
    /\ xOut = XNone
    /\ xFilters = <<>>

Next ==
    \/ \E q \in UiQuestions : SetQuestion(q)
    \/ \E m \in Models : SetSelectedModel(m)
    \/ HandleClear
    \/ OpenSettings
    \/ \E k \in Keys : SetApiKey(k)
    \/ \E u \in Urls : SetOllamaUrl(u)
    \/ CloseSettings
    \/ SearchStateChanges
    \/ ClickFindTraces
    \/ PressCtrlEnter
    \/ \E i \in 1..(HistorySlice + 1) : ClickRunThisSearch(i)
    \/ \E r \in 1..MaxRequests, resp \in Responses : AskResumes(r, resp)
    \/ \E m \in GatewayModels, k \in Keys : GatewayCall(m, k)
    \/ \E r \in 1..MaxRequests, resp \in Responses : GatewayResumes(r, resp)
    \/ \E r \in 1..MaxRequests : DeadlinePasses(r)

Spec == Init /\ [][Next]_vars

-----------------------------------------------------------------------------
(* queryLLM and its two clients against every kind of answer a backend can *)
(* give: the callers of the public API, and a network that may answer with *)
(* any status and body.                                                    *)

UpstreamMsg == <<"Rate", SP, "limit", SP, "exceeded">>
AbsentMsg == <<"model", SP, "'llama2'", SP, "not found">>

AllResponses ==
    {Fault}
    \cup {Http(FALSE, "message", t) : t \in {<<>>, UpstreamMsg, AbsentMsg}}
    \cup {Http(FALSE, "nomessage", <<>>)}
    \cup {Http(ok, b, t) : ok \in BOOLEAN, b \in {"notjson", "notjsonquoted"},
                           t \in {UpstreamMsg, <<"model", SP, "not found">>}}
    \cup {Http(TRUE, "content", t) : t \in {<<>>, WBare(PErr)}}
    \cup {Http(TRUE, b, <<>>) : b \in {"empty", "nocontent", "nolist"}}

AInit == Init /\ caller = "api"

ANext ==
    \/ \E m \in GatewayModels, k \in Keys : GatewayCall(m, k)
    \/ \E r \in 1..MaxRequests, resp \in AllResponses : GatewayResumes(r, resp)

AdapterSpec == AInit /\ [][ANext]_vars

-----------------------------------------------------------------------------
(* Extraction as a pure function: a reply and a question are drawn, and    *)
(* the try block of parseNaturalLanguageQuery is applied to them.          *)

UiIdle ==
    /\ question = <<>>
    /\ selectedModel = "ollama-free"
    /\ loading = FALSE
    /\ showSettings = FALSE
    /\ apiKey = <<>>
    /\ ollamaUrl = OllamaDefault
    /\ parsedQuery = NoQuery
    /\ queryHistory = <<>>
    /\ storage = <<>>
    /\ submitting = FALSE
    /\ searches = <<>>
    /\ clock = 1
    /\ req = <<>>
    /\ last = NoReq
    /\ nreq = 0
    /\ caller = "component"

XInit ==
    /\ UiIdle
    /\ xRaw \in RawTexts
    /\ xQuestion \in XQuestions
    /\ xOut = XNone
    /\ xFilters = <<>>

XExtract ==
    /\ ~xOut.done
    /\ UNCHANGED caller
    /\ xOut' = LET e == Extract(xRaw, xQuestion) IN
                [done |-> TRUE, ok |-> e.ok, error |-> e.error, parsed |-> e.parsed]
    /\ UNCHANGED <<xRaw, xQuestion, xFilters>>
    /\ UNCHANGED <<question, selectedModel, loading, showSettings, apiKey, ollamaUrl,
                   parsedQuery, queryHistory, storage, submitting, searches,
                   clock, req, last, nreq>>

\* How many times the harness calls convertParsedQueryToSearchFilters on
\* one query.
MaxCompiles == 2

\* convertParsedQueryToSearchFilters(parsed) on the query extraction gave:
\* it builds and returns a new object and assigns to nothing else.
XCompile ==
    /\ xOut.done
    /\ xOut.ok
    /\ Len(xFilters) < MaxCompiles
    /\ xFilters' = Append(xFilters, Compile(xOut.parsed))
    /\ UNCHANGED <<caller, xRaw, xQuestion, xOut>>
    /\ UNCHANGED <<question, selectedModel, loading, showSettings, apiKey, ollamaUrl,
                   parsedQuery, queryHistory, storage, submitting, searches,
                   clock, req, last, nreq>>

XNext == XExtract \/ XCompile

ExtractSpec == XInit /\ [][XNext]_vars

-----------------------------------------------------------------------------
(* The failure kinds of the specification (spec.md, section 7), by the     *)
(* message a call ends with.                                               *)

ErrorKind(msg) ==
    CASE msg \in {MsgEnterQuestion, MsgConfigureKey, MsgKeyRequired,
                  MsgUnknownModel} -> "ConfigurationError"
      [] msg \in {MsgOpenAIError, MsgOllamaError} -> "ProtocolError"
      [] msg = MsgModelNotFound -> "ModelNotInstalled"
      [] msg = MsgUnableToConnect -> "BackendUnreachable"
      [] msg = MsgParse -> "ParseError"
      [] OTHER -> "Unclassified"

-----------------------------------------------------------------------------
(* Properties of the component and of queryLLM (specification Spec)        *)

\* C1: a call for a hosted model (openai-gpt4, openai-gpt3.5) whose
\* credential is empty ends in a ConfigurationError having issued no network
\* request, through queryLLM and through handleSearch alike; no such call is
\* ever awaiting a backend.
C1_HostedWithoutKeyFailsLocally ==
    /\ (last.pc = "done" /\ Hosted(last.model) /\ last.key = <<>>) =>
          /\ ~last.ok
          /\ ErrorKind(last.msg) = "ConfigurationError"
          /\ last.netCalls = 0
    /\ \A r \in Awaiting : ~(Hosted(req[r].model) /\ req[r].key = <<>>)

\* queryLLM was called for a hosted model without a key and threw.
C1_Witness ==
    /\ last.origin = "gateway"
    /\ Hosted(last.model)
    /\ last.key = <<>>
    /\ last.msg = MsgKeyRequired
    /\ last.netCalls = 0

\* C2: a call of handleSearch whose question is empty after trimming is
\* rejected with a ConfigurationError-class failure in the very step that
\* makes it: no request goes to a backend, no search is dispatched, and
\* history (in memory and in storage), the parsed query and the loading
\* flag stay as they were.
C2_BlankQuestionRejected ==
    [][(Mounted /\ nreq' # nreq /\ Trim(question) = <<>>) =>
          /\ last'.pc = "done"
          /\ last'.q = question
          /\ ~last'.ok
          /\ ErrorKind(last'.msg) = "ConfigurationError"
          /\ last'.netCalls = 0
          /\ req' = req
          /\ UNCHANGED <<queryHistory, storage, searches, parsedQuery, loading>>
      ]_vars

\* handleSearch was called with a question of white space only.
C2_Witness ==
    /\ last.origin = "ask"
    /\ last.q = <<SP>>
    /\ last.msg = MsgEnterQuestion
    /\ last.netCalls = 0
    /\ searches = <<>>

\* C3: a call whose backend has not answered within the deadline is
\* cancelled and ends in TimeoutError, so no call is still awaiting its
\* backend once its deadline has passed.
C3_NoCallOutlivesItsDeadline ==
    \A r \in Awaiting : ~req[r].late

\* C4: a reply that arrives after the deadline of its request has passed is
\* discarded: the step that takes it changes neither history (in memory and
\* in storage) nor the parsed query nor the loading flag, and dispatches no
\* search.
C4_LateReplyDiscarded ==
    [][\A r \in 1..Len(req) :
          (req[r].origin = "ask" /\ req[r].late /\ req' = Without(r)) =>
             UNCHANGED <<queryHistory, storage, searches, parsedQuery, loading>>
      ]_vars

\* C5: at most one call of handleSearch is awaiting the model at any time.
C5_OneRequestInFlight ==
    Cardinality(Asks) <= 1

\* A call of handleSearch ends in failure in this step: at once, before any
\* request was sent, or when its fetch settles.
AskFails ==
    /\ Mounted
    /\ \/ nreq' # nreq /\ req' = req
       \/ Len(req') < Len(req) /\ ~last'.ok

\* C6: the step in which a call of handleSearch fails, whatever the failure,
\* ends that call and leaves history (in memory and in storage) and the
\* searches dispatched exactly as they were.
C6_FailureLeavesHistoryAndSearches ==
    [][AskFails =>
          /\ last'.pc = "done"
          /\ ~last'.ok
          /\ UNCHANGED <<queryHistory, storage, searches>>
      ]_vars

\* A call failed in extraction, after its backend had answered, in a
\* component that has a history.
C6_Witness ==
    /\ last.origin = "ask"
    /\ ~last.ok
    /\ last.netCalls = 1
    /\ ErrorKind(last.msg) = "ParseError"
    /\ queryHistory # <<>>
    /\ searches = <<>>

\* History holds at most ten entries, newest first, and storage holds the
\* same list.
HistoryWellFormed ==
    /\ Len(queryHistory) <= HistorySlice + 1
    /\ \A i, j \in 1..Len(queryHistory) :
          i < j => queryHistory[i].timestamp >= queryHistory[j].timestamp
    /\ storage = queryHistory

\* C7: the step in which a call of handleSearch succeeds puts one entry for
\* its question in front of the history it started from, cut to the nine
\* newest, writes the same list to storage, and hands the query compiled
\* from the parsed reply to searchTraces once; after every step history
\* holds at most ten entries, newest first.
C7_SuccessAddsEntryAndSearchesOnce ==
    [][/\ HistoryWellFormed'
       /\ \A r \in 1..Len(req) :
            (req[r].origin = "ask" /\ req' = Without(r)
                /\ last' = Succeeded(req[r])) =>
               /\ queryHistory'[1] = [question |-> req[r].q, timestamp |-> clock]
               /\ Len(queryHistory') =
                     Min(Len(req[r].hist) + 1, HistorySlice + 1)
               /\ \A i \in 2..Len(queryHistory') :
                     queryHistory'[i] = req[r].hist[i - 1]
               /\ storage' = queryHistory'
               /\ Len(searches') = Len(searches) + 1
               /\ SubSeq(searches', 1, Len(searches)) = searches
               /\ searches'[Len(searches')] = SearchQuery(Compile(parsedQuery'))
      ]_vars

\* Two calls succeeded one after the other from a history of nine: the
\* second added an eleventh entry and the oldest one is gone.
C7_Witness ==
    /\ last.origin = "ask"
    /\ last.ok
    /\ Len(searches) = 2
    /\ Len(queryHistory) = HistorySlice + 1
    /\ queryHistory[1].question = last.q
    /\ queryHistory[Len(queryHistory)].timestamp > 1

-----------------------------------------------------------------------------
(* Properties of extraction (specification ExtractSpec)                    *)

\* The text holds "```json" with a closing fence somewhere after it.
BlockStarts(t) ==
    {i \in 1..Len(t) : /\ At(t, i) = FENCE
                       /\ At(t, i + 1) = "json"
                       /\ \E j \in (i + 2)..Len(t) : t[j] = FENCE}

\* What lies between the label of the first such block and the next fence.
BlockInterior(t) ==
    LET i == Least(BlockStarts(t))
        j == Least({k \in (i + 2)..Len(t) : t[k] = FENCE})
    IN  SubSeq(t, i + 2, j - 1)

Opens(t) == {i \in 1..Len(t) : t[i] = "{"}
Closes(t) == {i \in 1..Len(t) : t[i] = "}"}

\* The text holds a "{" with a "}" somewhere after it.
HasBraceSpan(t) ==
    Opens(t) # {} /\ Closes(t) # {} /\ Least(Opens(t)) < Greatest(Closes(t))

\* From the first "{" to the last "}".
BraceSpan(t) == SubSeq(t, Least(Opens(t)), Greatest(Closes(t)))

\* C8: extraction ends in ParseError, and gives no query, for every reply
\* that holds neither a fenced JSON block nor a brace span, and for every
\* reply whose candidate does not parse as a JSON object.
C8_NonObjectIsParseError ==
    (/\ xOut.done
     /\ \/ BlockStarts(xRaw) = {} /\ ~HasBraceSpan(xRaw)
        \/ ~ParsedReply[xRaw].ok
        \/ ParsedReply[xRaw].val.kind # "object") =>
       (~xOut.ok /\ ErrorKind(xOut.error) = "ParseError")

\* C9: for every JSON object, the object in a fenced json block and the
\* same object bare in prose give the same outcome and the same query.
C9_FencedAndBareAgree ==
    \A p \in ObjectPayloads :
        (xOut.done /\ xRaw \in {WFence(p), WFenceProse(p)}) =>
            LET bare == Extract(WProse(p), xQuestion) IN
            xOut.ok = bare.ok /\ xOut.parsed = bare.parsed

\* C10: when the reply holds a fenced json block, the interior of the first
\* one is what is parsed, whatever else the reply holds; when it holds none,
\* the span from the first "{" to the last "}" is what is parsed, so two
\* objects in prose are parsed as one span and fail.
C10_FenceFirstThenGreedySpan ==
    /\ (xOut.done /\ BlockStarts(xRaw) # {}) =>
          LET e == ExtractParsed(JSONParse(BlockInterior(xRaw)), xQuestion) IN
          xOut.ok = e.ok /\ xOut.error = e.error /\ xOut.parsed = e.parsed
    /\ (xOut.done /\ BlockStarts(xRaw) = {} /\ HasBraceSpan(xRaw)) =>
          LET e == ExtractParsed(JSONParse(BraceSpan(xRaw)), xQuestion) IN
          xOut.ok = e.ok /\ xOut.error = e.error /\ xOut.parsed = e.parsed
    /\ (xOut.done /\ xRaw = TwoBare(PUser, POk)) => ~xOut.ok

\* A bare object comes first and a fenced one after it: the fenced one is
\* the query.
C10_Witness ==
    /\ xOut.done
    /\ xRaw = BareThenFence(POk, PUser)
    /\ xOut.ok
    /\ xOut.parsed.service = StrV(<<"cart">>)
    /\ xOut.parsed.status = StrV(<<"success">>)

-----------------------------------------------------------------------------
(* Properties of normalisation (specification ExtractSpec)                 *)

\* What JSON.parse made of the reply's candidate.
ReplyValue == ParsedReply[xRaw].val

\* Extraction has returned a query.
Extracted == xOut.done /\ xOut.ok

\* C11: in every query extraction returns, each of service, operation,
\* minDuration and maxDuration is the reply's member when that is a
\* non-empty string, unchanged, and absent for every other member value
\* (not a string, the empty string, or no member at all).
C11_StringFieldsAbsentOrNonEmpty ==
    Extracted =>
        \A f \in {"service", "operation", "minDuration", "maxDuration"} :
            LET v == Get(ReplyValue, f) IN
            IF v.kind = "string" /\ v.str # <<>>
            THEN xOut.parsed[f] = v
            ELSE xOut.parsed[f] = Undef

\* The first example reply: service "user" is kept, operation "" is absent.
C11_Witness ==
    /\ Extracted
    /\ xRaw = WBare(PSlow)
    /\ xOut.parsed.service = StrV(<<"user">>)
    /\ xOut.parsed.minDuration = StrV(<<"500ms">>)
    /\ xOut.parsed.operation = Undef
    /\ xOut.parsed.maxDuration = Undef

\* C12: in every query extraction returns, tags is present only if the
\* reply's tags member is a mapping with at least one key; for a missing
\* member, null, an empty mapping, a string, a number or an array it is
\* absent.
C12_TagsOnlyNonEmptyMapping ==
    Extracted =>
        LET t == Get(ReplyValue, "tags") IN
        IF t.kind = "object" /\ Len(t.items) > 0
        THEN xOut.parsed.tags = t
        ELSE xOut.parsed.tags = Undef

\* C13: in every query extraction returns, status is one of error, success
\* and all: the reply's status when it is one of the three, else all.
C13_StatusIsOneOfThree ==
    Extracted =>
        LET st == Get(ReplyValue, "status") IN
        IF st \in {StrV(<<"error">>), StrV(<<"success">>), StrV(<<"all">>)}
        THEN xOut.parsed.status = st
        ELSE xOut.parsed.status = StrV(<<"all">>)

\* C14: in every query extraction returns, natural_language_question is
\* the question the caller passed, whatever members the reply holds.
C14_QuestionIsTheCallers ==
    Extracted => xOut.parsed.natural_language_question = xQuestion

\* The reply holds a natural_language_question of its own, and the query
\* has the caller's.
C14_Witness ==
    /\ Extracted
    /\ xRaw = Obj(<<Mem("natural_language_question", Str(<<"user">>))>>)
    /\ xQuestion = QSlow
    /\ xOut.parsed.natural_language_question = QSlow

-----------------------------------------------------------------------------
(* Properties of convertParsedQueryToSearchFilters (specification          *)
(* ExtractSpec)                                                            *)

Compiles == 1..Len(xFilters)

C16_FieldsCopiedOrOmitted ==
    \A i \in Compiles :
        /\ DOMAIN xFilters[i] \subseteq
              {"service", "operation", "minDuration", "maxDuration", "tags"}
        /\ \A f \in {"service", "operation", "minDuration", "maxDuration"} :
              IF xOut.parsed[f] # Undef
              THEN f \in DOMAIN xFilters[i] /\ xFilters[i][f] = xOut.parsed[f]
              ELSE f \notin DOMAIN xFilters[i]

\* A query with a minDuration and nothing else gives filters with that key
\* alone.
C16_Witness ==
    /\ xRaw = Obj(<<Mem("minDuration", Str(<<"user">>))>>)
    /\ Compiles # {}
    /\ DOMAIN xFilters[1] = {"minDuration"}
    /\ xFilters[1]["minDuration"] = StrV(<<"user">>)

\* The query's tags are a mapping from strings to strings.
TagsAreMapping ==
    /\ xOut.parsed.tags.kind = "object"
    /\ \A k \in 1..Len(xOut.parsed.tags.items) :
          xOut.parsed.tags.items[k].val.kind = "string"

\* key="value" for each entry in order, one space between two pairs.
RECURSIVE SpacedPairs(_)
SpacedPairs(es) ==
    IF es = <<>> THEN <<>>
    ELSE LET one == Head(es).key \o <<"=", Q>> \o Head(es).val.str \o <<Q>>
         IN  IF Len(es) = 1 THEN one
             ELSE one \o <<SP>> \o SpacedPairs(Tail(es))

\* The tags of the query as C17 has them written; nothing when it has none.
RenderedTags ==
    IF xOut.parsed.tags = Undef THEN <<>>
    ELSE SpacedPairs(xOut.parsed.tags.items)

\* C17: when the query has a tags mapping, the tags string of the filters
\* begins with one key="value" pair per entry, in the mapping's order,
\* joined by single spaces, and is exactly that when the status adds no
\* marker.
C17_TagsRenderedInOrder ==
    \A i \in Compiles :
        TagsAreMapping =>
            /\ "tags" \in DOMAIN xFilters[i]
            /\ Len(xFilters[i]["tags"].str) >= Len(RenderedTags)
            /\ SubSeq(xFilters[i]["tags"].str, 1, Len(RenderedTags)) = RenderedTags
            /\ xOut.parsed.status \notin {StrV(<<"error">>), StrV(<<"success">>)}
                  => xFilters[i]["tags"] = StrV(RenderedTags)

\* Two tags, written c then a in the reply, are rendered c then a.
C17_Witness ==
    /\ xRaw = Obj(<<Mem("tags", TagsTwo), Mem("status", Str(<<"all">>))>>)
    /\ Compiles # {}
    /\ xFilters[1]["tags"] =
          StrV(<<"c", "=", Q, "d", Q, SP, "a", "=", Q, "b", Q>>)

\* The tags string the status makes of the rendered tags r.
WithMarker(r, marker) == IF r = <<>> THEN marker ELSE r \o <<SP>> \o marker

\* C18: for status error the tags string is the rendered tags, one space and
\* otel.status_code="ERROR"; for status success the same with "OK"; without
\* rendered tags it is the marker alone; for status all nothing is added,
\* and the filters have no tags key when the query has no tags.
C18_StatusMarkerLast ==
    \A i \in Compiles :
        (xOut.parsed.tags = Undef \/ TagsAreMapping) =>
            CASE xOut.parsed.status = StrV(<<"error">>) ->
                    /\ "tags" \in DOMAIN xFilters[i]
                    /\ xFilters[i]["tags"] = StrV(WithMarker(RenderedTags,
                          <<"otel.status_code", "=", Q, "ERROR", Q>>))
              [] xOut.parsed.status = StrV(<<"success">>) ->
                    /\ "tags" \in DOMAIN xFilters[i]
                    /\ xFilters[i]["tags"] = StrV(WithMarker(RenderedTags,
                          <<"otel.status_code", "=", Q, "OK", Q>>))
              [] xOut.parsed.status = StrV(<<"all">>) ->
                    IF xOut.parsed.tags = Undef
                    THEN "tags" \notin DOMAIN xFilters[i]
                    ELSE xFilters[i]["tags"] = StrV(RenderedTags)
              [] OTHER -> TRUE

\* Tags {"a": "b"} with status error give a="b" otel.status_code="ERROR".
C18_Witness ==
    /\ xRaw = Obj(<<Mem("tags", TagsOne), Mem("status", Str(<<"error">>))>>)
    /\ Compiles # {}
    /\ xFilters[1]["tags"] =
          StrV(<<"a", "=", Q, "b", Q, SP, "otel.status_code", "=", Q, "ERROR", Q>>)

\* C19: for the question "Show me slow requests to the user service" and the
\* reply with service "user", minDuration "500ms", status "all" and every
\* other field empty, extraction gives a query with just these and
\* convertParsedQueryToSearchFilters gives exactly
\* {service: "user", minDuration: "500ms"}.
C19_SlowRequestsEndToEnd ==
    (/\ xOut.done
     /\ xQuestion = QSlow
     /\ xRaw \in {WBare(PSlow), WProse(PSlow), WFence(PSlow), WFenceProse(PSlow)})
    =>
       /\ xOut.ok
       /\ xOut.parsed =
             [natural_language_question |-> QSlow,
              service |-> StrV(<<"user">>), operation |-> Undef,
              minDuration |-> StrV(<<"500ms">>), maxDuration |-> Undef,
              tags |-> Undef, status |-> StrV(<<"all">>)]
       /\ \A i \in Compiles :
             /\ DOMAIN xFilters[i] = {"service", "minDuration"}
             /\ xFilters[i]["service"] = StrV(<<"user">>)
             /\ xFilters[i]["minDuration"] = StrV(<<"500ms">>)

\* The reply came fenced among prose and was extracted and compiled.
C19_Witness ==
    /\ xQuestion = QSlow
    /\ xRaw = WFenceProse(PSlow)
    /\ xOut.ok
    /\ Compiles # {}
    /\ DOMAIN xFilters[1] = {"service", "minDuration"}

-----------------------------------------------------------------------------
(* Classification of failures (specification Spec)                         *)

\* The kinds a failure may have.
FailureKinds == {"ConfigurationError", "BackendUnreachable", "ProtocolError",
                 "ModelNotInstalled", "TimeoutError", "ParseError"}

\* C20: every call that ends without success ends with a failure of one of
\* the six kinds; none ends in an exception that has no kind.
C20_EveryFailureHasAKind ==
    (last.pc = "done" /\ ~last.ok) => ErrorKind(last.msg) \in FailureKinds

-----------------------------------------------------------------------------
(* Properties of queryLLM and its clients (specification AdapterSpec)      *)

\* The call of queryLLM that ended last.
Ended == last.pc = "done" /\ last.origin = "gateway"

\* C21: queryLLM hands each call to the client its config.model selects:
\* both openai identities to OpenAIClient, ollama-free to OllamaClient; a
\* call whose model is none of the three ends in a ConfigurationError with
\* no request made; and the result of a call that succeeds names the model
\* that was asked for.
C21_DispatchByModel ==
    /\ \A r \in Awaiting :
          /\ req[r].model \in {"openai-gpt4", "openai-gpt3.5", "ollama-free"}
          /\ req[r].client = "openai"
                <=> req[r].model \in {"openai-gpt4", "openai-gpt3.5"}
          /\ req[r].client = "ollama" <=> req[r].model = "ollama-free"
    /\ Ended =>
          /\ last.model \notin {"openai-gpt4", "openai-gpt3.5", "ollama-free"}
                => /\ ~last.ok
                   /\ ErrorKind(last.msg) = "ConfigurationError"
                   /\ last.netCalls = 0
          /\ last.netCalls > 0 =>
                /\ last.client = "openai"
                      <=> last.model \in {"openai-gpt4", "openai-gpt3.5"}
                /\ last.client = "ollama" <=> last.model = "ollama-free"
          /\ last.ok => last.result.model = last.model

\* A call for the local model has returned its completion while a call for
\* a hosted model is with the OpenAI client.
C21_Witness ==
    /\ Ended
    /\ last.ok
    /\ last.model = "ollama-free"
    /\ last.client = "ollama"
    /\ last.result = [content |-> WBare(PErr), model |-> "ollama-free"]
    /\ \E r \in Awaiting : req[r].model = "openai-gpt4" /\ req[r].client = "openai"

\* The base address of the endpoint a call fetched.
BaseOf(r) == IF r.baseURL # <<>> THEN r.baseURL ELSE OllamaDefault

\* C22: when the fetch of the Ollama client is rejected by the transport
\* (no status is ever received), the call ends in a BackendUnreachable
\* failure whose message names the address it expected Ollama at; it does
\* not end in a ProtocolError or with the error of the transport itself.
C22_FaultIsBackendUnreachable ==
    (Ended /\ last.client = "ollama" /\ last.resp = Fault) =>
        /\ ~last.ok
        /\ ErrorKind(last.msg) = "BackendUnreachable"
        /\ last.detail = BaseOf(last)

\* errorData.error, when the error body parses and has one.
HasErrorField(resp) == resp.body = "message" /\ resp.text # <<>>

\* The message of a non-success answer: the error field of the body when it
\* parses and has one, else the status text.
UpstreamMessage(resp) ==
    IF HasErrorField(resp) THEN resp.text ELSE StatusText(resp)

NonSuccess(resp) == resp.kind = "http" /\ ~resp.ok

\* C23: when Ollama answers with a non-success status, the message is the
\* error field of the body when the body parses and has one, else the
\* status text; if the message holds 'model' and 'not found' the call ends
\* in ModelNotInstalled naming the model to pull, otherwise in a
\* ProtocolError carrying the message; and a call ends in ModelNotInstalled
\* for no other cause.
C23_ModelNotInstalledOnlyWhenAbsent ==
    (Ended /\ last.client = "ollama" /\ last.netCalls = 1) =>
        /\ NonSuccess(last.resp) =>
              /\ ~last.ok
              /\ IF ModelAbsent(UpstreamMessage(last.resp))
                 THEN /\ ErrorKind(last.msg) = "ModelNotInstalled"
                      /\ last.detail = OllamaModel
                 ELSE /\ ErrorKind(last.msg) = "ProtocolError"
                      /\ last.detail = UpstreamMessage(last.resp)
        /\ (~last.ok /\ ErrorKind(last.msg) = "ModelNotInstalled") =>
              /\ NonSuccess(last.resp)
              /\ ModelAbsent(UpstreamMessage(last.resp))

\* C24: when OpenAI answers with a non-success status, the call ends in a
\* ProtocolError carrying the message field of the body when the body has
\* one and the status text otherwise, also when the error body has no
\* message field or is not JSON.
C24_HostedNonSuccessIsProtocolError ==
    (Ended /\ last.client = "openai" /\ NonSuccess(last.resp)) =>
        /\ ~last.ok
        /\ ErrorKind(last.msg) = "ProtocolError"
        /\ last.detail = UpstreamMessage(last.resp)

\* A success answer of OpenAI that holds no completion: an empty or a
\* missing choice list, or a first choice without content.
NoChoice(resp) ==
    /\ resp.kind = "http"
    /\ resp.ok
    /\ \/ resp.body \in {"empty", "nolist", "nocontent"}
       \/ resp.body = "content" /\ resp.text = <<>>

\* C25: when OpenAI answers with a success status and no completion, the
\* OpenAI client returns the empty string and throws nothing; extraction
\* then takes the empty text for a reply and fails to parse it, which is no
\* failure of the backend.
C25_NoChoiceIsEmptyReply ==
    (Ended /\ last.client = "openai" /\ NoChoice(last.resp)) =>
        /\ last.ok
        /\ last.result.content = <<>>
        /\ \A q \in XQuestions :
              ~Extract(last.result.content, q).ok
              /\ Extract(last.result.content, q).error = MsgParse

-----------------------------------------------------------------------------
(* Properties of the component (specification Spec), continued             *)

\* C26: a call of handleSearch sends at most one request to the backend of
\* the selected model, however it ends: a call that is awaiting has sent
\* one, and a call that has ended, whether it succeeded, failed in the
\* transport, was answered with an error status or gave a reply that does
\* not parse, has sent one or none; no failure makes it fetch again.
C26_AtMostOneRequestPerAsk ==
    /\ \A r \in Awaiting : req[r].netCalls = 1
    /\ last.netCalls <= 1
    /\ (last.pc = "done" /\ last.origin = "ask" /\ last.netCalls = 0)
          => last.msg \in {MsgEnterQuestion, MsgConfigureKey}

\* A call of handleSearch has ended in a parse failure, having sent one
\* request, while another call, whose deadline has passed, is still at its
\* first request.
C26_Witness ==
    /\ last.pc = "done"
    /\ last.origin = "ask"
    /\ ~last.ok
    /\ last.msg = MsgParse
    /\ last.netCalls = 1
    /\ \E r \in Asks : req[r].late /\ req[r].netCalls = 1

\* C27: the history append keeps what overlapping calls appended: whenever a
\* call of handleSearch changes the history, the entries the history held
\* just before (its newest nine, the list being cut to ten) are all still
\* there behind the new one, in memory and in storage, so that two calls in
\* flight together that both succeed both leave their entry.
C27_AppendKeepsOtherEntries ==
    [][queryHistory' # queryHistory =>
          /\ Len(queryHistory') = Min(HistorySlice, Len(queryHistory)) + 1
          /\ \A i \in 1..Min(HistorySlice, Len(queryHistory)) :
                queryHistory'[i + 1] = queryHistory[i]
          /\ storage' = queryHistory']_vars

\* C28: Ollama is never sent the credential and never needs one: the config
\* of a call of handleSearch holds a key only for an openai model and a base
\* URL only for the ollama model; a call for the ollama model is with the
\* Ollama client, has made its request with no Authorization header, and
\* ends without a request only for a blank question, never for want of a
\* key.
C28_LocalNeverGetsCredential ==
    /\ \A r \in Asks :
          /\ req[r].key # <<>> => req[r].model \in {"openai-gpt4", "openai-gpt3.5"}
          /\ req[r].baseURL # <<>> => req[r].model = "ollama-free"
          /\ req[r].model = "ollama-free" =>
                /\ req[r].client = "ollama"
                /\ req[r].netCalls = 1
                /\ req[r].key = <<>>
                /\ req[r].auth = <<>>
    /\ (last.pc = "done" /\ last.origin = "ask" /\ last.model = "ollama-free") =>
          /\ last.key = <<>>
          /\ last.auth = <<>>
          /\ last.msg \notin {MsgConfigureKey, MsgKeyRequired}
          /\ last.netCalls = 0 => last.msg = MsgEnterQuestion

\* A call for a hosted model has succeeded with the stored key, and with
\* the key still stored a call for the ollama model is at the changed
\* Ollama address, with no key in its config and no Authorization header.
C28_Witness ==
    /\ last.pc = "done"
    /\ last.origin = "ask"
    /\ last.ok
    /\ last.client = "openai"
    /\ last.auth = <<"Bearer", SP, "sk-1">>
    /\ apiKey = <<"sk-1">>
    /\ \E r \in Asks :
          /\ req[r].model = "ollama-free"
          /\ req[r].key = <<>>
          /\ req[r].auth = <<>>
          /\ req[r].baseURL = <<"http://gpu-box:11434">>
          /\ req[r].url = <<"http://gpu-box:11434", "/api/generate">>

\* C29: every run of handleSearch that turns loading on turns it off again
\* before it ends: whenever a call ends after a success, a failure thrown on
\* the way, or the missing-key return, loading is off; a call refused for a
\* blank question leaves the flag as it was; and so loading is off whenever
\* no call is in flight.
C29_LoadingOffWhenHandlerEnds ==
    [][/\ (last' # last /\ last'.origin = "ask") =>
             IF ~last'.ok /\ last'.msg = MsgEnterQuestion
             THEN loading' = loading
             ELSE ~loading'
       /\ Asks' = {} => ~loading']_vars

\* A call that turned loading on has ended in a failure of the transport;
\* no call is in flight and loading is off.
C29_Witness ==
    /\ last.pc = "done"
    /\ last.origin = "ask"
    /\ ~last.ok
    /\ last.msg = MsgFetchFailed
    /\ last.netCalls = 1
    /\ Asks = {}
    /\ ~loading

\* C30: a click on Run This Search of a history entry starts a request (the
\* key being there if the model needs one), and the question that request
\* sends to the model and later records in the history is the question of
\* that entry, whatever the question field held before the click, an empty
\* field included.
C30_RunThisSearchAsksTheEntry ==
    [][\A i \in 1..Len(queryHistory) :
          ClickRunThisSearch(i) =>
             /\ MissingKey(selectedModel, apiKey) \/ Len(req') = Len(req) + 1
             /\ Len(req') = Len(req) + 1 =>
                   req'[Len(req')].q = queryHistory[i].question]_vars

====
